---- MODULE Spec2Model ----
(***************************************************************************)
(* kmerge, src/merge2_uniq.rs: five ways to merge two sorted, deduplicated *)
(* vectors into one sorted, deduplicated vector.  One call of one strategy *)
(* is run step by step: every loop iteration, every write to the output    *)
(* and every release of storage is a transition.                           *)
(*                                                                         *)
(* An element is a record [k, src, i]: k is the part Ord looks at, and     *)
(* (src, i) says which argument and which slot the instance came from, so  *)
(* that moves, drops and the survivor of a duplicate can be followed.      *)
(***************************************************************************)
EXTENDS Integers, Sequences, FiniteSets, TLC

\* Bounds of the model.
MaxLen == 3
MaxVal == 4
MaxLenAny == 2
MaxValAny == 3

Strategies == {"naive", "into_iter", "into_iter_safer", "old_datafrog", "raw_ptr"}
Linear == Strategies \ {"naive"}

VARIABLES
    strat,      \* the strategy that is called
    inA, inB,   \* the two arguments as passed by the caller
    pc,         \* position in the called function
    a, b,       \* the bindings a and b: a Vec, IntoIter or Drain's remaining elements
    out,        \* the output Vec: [mem, len, cap]
    elem,       \* old_datafrog: the element of the for loop, <<>> outside an iteration
    swapped,    \* old_datafrog: whether the bindings were swapped
    ait, bit,   \* raw_ptr: the two RawIter, [start, end] as slot offsets
    o,          \* raw_ptr: the write cursor, as an offset from out.as_mut_ptr()
    result,     \* the returned Vec's elements, <<>> until the call returns
    resbuf,     \* the allocation the returned Vec lives in
    ncmp,       \* comparisons of elements so far
    nmoves,     \* elements moved from one allocation to another so far
    dropped,    \* the elements destructed so far, in order
    nalloc,     \* allocations made so far
    nrealloc,   \* times the output had to grow after it was created
    wlog,       \* the set of output offsets written to so far
    ub,         \* an unchecked operation was used outside its contract
    fate,       \* raw_ptr: per input slot, the transitions it has made
    freed       \* raw_ptr: per allocation, the releases: how many slots were present

args == <<strat, inA, inB>>
dfv == <<elem, swapped>>
rawv == <<ait, bit, o, fate, freed>>
stats == <<ncmp, nmoves, dropped, nalloc, nrealloc, wlog, ub>>
vars == <<strat, inA, inB, pc, a, b, out, elem, swapped, ait, bit, o, result,
          resbuf, ncmp, nmoves, dropped, nalloc, nrealloc, wlog, ub, fate, freed>>

(***************************************************************************)
(* Elements and inputs                                                     *)
(***************************************************************************)
Elem(k, s, i) == [k |-> k, src |-> s, i |-> i]

Tag(keys, s) == [n \in 1..Len(keys) |-> Elem(keys[n], s, n)]

Keys(s) == [n \in 1..Len(s) |-> s[n].k]

Range(s) == {s[n] : n \in 1..Len(s)}

KeySeqs(len, val) == UNION {[1..m -> 1..val] : m \in 0..len}

\* What the tests establish with sort_unstable(); dedup() before each call.
Ascending(keys) == \A n \in 1..(Len(keys) - 1) : keys[n] < keys[n + 1]

\* T::cmp
cmp(x, y) == IF x.k < y.k THEN "Less" ELSE IF x.k > y.k THEN "Greater" ELSE "Equal"

Count(s, x) == Cardinality({n \in 1..Len(s) : s[n] = x})

Ids == Range(inA) \cup Range(inB)

(***************************************************************************)
(* Vec                                                                     *)
(***************************************************************************)
EmptyVec == [mem |-> <<>>, len |-> 0, cap |-> 0]

\* Vec::with_capacity(a.len() + b.len())
with_capacity_M(n, m) == [mem |-> <<>>, len |-> 0, cap |-> n]
with_capacity(n, m) == [mem |-> <<>>, len |-> 0, cap |-> n + m]

\* ptr::write(p.add(at), value) into the output's memory
Write(mem, at, value) ==
    IF at < Len(mem) THEN [mem EXCEPT ![at + 1] = value]
    ELSE Append(mem, value)

\* push_unchecked: write at len, then set_len(len + 1); no capacity check.
push_unchecked(vec, value) ==
    [vec EXCEPT !.mem = Write(vec.mem, vec.len, value), !.len = vec.len + 1]

\* Vec::push: grows the allocation when it is full, then writes.
push(vec, value) ==
    [mem |-> Write(vec.mem, vec.len, value), len |-> vec.len + 1,
     cap |-> IF vec.len = vec.cap THEN 2 * vec.cap + 1 ELSE vec.cap]

RECURSIVE extend(_, _)
extend(vec, rest) ==
    IF rest = <<>> THEN vec ELSE extend(push(vec, Head(rest)), Tail(rest))

Grows(vec, n) == IF vec.len + n > vec.cap THEN 1 ELSE 0

Offsets(vec, n) == {vec.len + d : d \in 0..(n - 1)}

(***************************************************************************)
(* naive                                                                   *)
(***************************************************************************)
MinKey(S) == CHOOSE m \in {x.k : x \in S} : \A x \in S : m <= x.k

\* sort_unstable: any arrangement in key order; equal elements in any order.
RECURSIVE sort_unstable(_)
sort_unstable(S) ==
    IF S = {} THEN {<<>>}
    ELSE LET G == {x \in S : x.k = MinKey(S)}
         IN UNION {{<<x>> \o p : p \in sort_unstable(S \ {x})} : x \in G}

\* Vec::dedup: of every run of equal elements the first is kept.
dedup_M(s) == s

RECURSIVE dedup(_)
dedup(s) ==
    IF Len(s) <= 1 THEN s
    ELSE LET r == dedup(SubSeq(s, 1, Len(s) - 1))
         IN IF s[Len(s)].k = r[Len(r)].k THEN r ELSE Append(r, s[Len(s)])

Removed(s, kept) == SelectSeq(s, LAMBDA x : x \notin Range(kept))

\* The results naive(x, y) can return.
naive(x, y) == {dedup(p) : p \in sort_unstable(Range(x) \cup Range(y))}

\* Control moves on, unless an unchecked operation has left its contract.
Goto(p) == pc' = IF ub' THEN "ub" ELSE p

Contents(vec) == SubSeq(vec.mem, 1, vec.len)

\* return v, which lives in allocation buf
Return(v, buf) ==
    /\ result' = v
    /\ resbuf' = buf
    /\ Goto("done")

\* a.append(&mut b): b's elements are moved behind a's; a grows if it must.
NaiveAppend ==
    /\ pc = "start" /\ strat = "naive"
    /\ \E spare \in BOOLEAN :
          LET grow == b # <<>> /\ ~spare
          IN /\ nalloc' = nalloc + (IF grow THEN 1 ELSE 0)
             /\ resbuf' = IF grow THEN "grown" ELSE "a"
             /\ nmoves' = nmoves + Len(b)
    /\ a' = a \o b
    /\ b' = <<>>
    /\ pc' = "n_sort"
    /\ UNCHANGED <<args, out, dfv, rawv, result, ncmp, dropped, nrealloc, wlog, ub>>

\* a.sort_unstable(): at least len - 1 comparisons when there are two elements.
NaiveSort ==
    /\ pc = "n_sort"
    /\ a' \in sort_unstable(Range(a))
    /\ ncmp' = ncmp + (IF Len(a) >= 2 THEN Len(a) - 1 ELSE 0)
    /\ pc' = "n_dedup"
    /\ UNCHANGED <<args, b, out, dfv, rawv, result, resbuf, nmoves, dropped, nalloc,
                   nrealloc, wlog, ub>>

\* a.dedup(); a
NaiveDedup ==
    /\ pc = "n_dedup"
    /\ a' = dedup(a)
    /\ dropped' = dropped \o Removed(a, a')
    /\ ncmp' = ncmp + (IF Len(a) >= 2 THEN Len(a) - 1 ELSE 0)
    /\ pc' = "done"
    /\ result' = a'
    /\ UNCHANGED <<args, b, out, dfv, rawv, resbuf, nmoves, nalloc, nrealloc, wlog, ub>>

(***************************************************************************)
(* The fast path and the allocation of the output, the same in into_iter,  *)
(* into_iter_safer, old_datafrog and raw_ptr                               *)
(***************************************************************************)
ReturnOther_M ==
    /\ a = <<>> \/ b = <<>>
    /\ UNCHANGED <<args, a, b, out, dfv, rawv, stats>>
    /\ IF a = <<>> THEN Return(a, "a") ELSE Return(b, "b")

\* if a.is_empty() { return b; }  if b.is_empty() { return a; }
\* The empty argument is dropped: it holds no element.
ReturnOther ==
    /\ a = <<>> \/ b = <<>>
    /\ UNCHANGED <<args, a, b, out, dfv, rawv, stats>>
    /\ IF a = <<>> THEN Return(b, "b") ELSE Return(a, "a")

\* let mut out = Vec::with_capacity(a.len() + b.len());
Allocate ==
    /\ out' = with_capacity(Len(a), Len(b))
    /\ nalloc' = nalloc + 1

(***************************************************************************)
(* into_iter and into_iter_safer                                           *)
(***************************************************************************)
\* while !a.is_empty() && !b.is_empty()
both_nonempty_M(x, y) == x # <<>> \/ y # <<>>
both_nonempty(x, y) == x # <<>> /\ y # <<>>

\* The arms of match a_elem.cmp(b_elem): which iterator is advanced, and
\* which element goes to the output (the other one of an Equal pair is dropped).
takes_a(ord) == ord \in {"Less", "Equal"}

takes_b_M(ord) == ord = "Greater"
takes_b(ord) == ord \in {"Greater", "Equal"}

emits(ord, x, y) == IF ord = "Greater" THEN y ELSE x

IntoIterFast ==
    /\ pc = "start" /\ strat \in {"into_iter", "into_iter_safer"}
    /\ ReturnOther

IntoIterAlloc ==
    /\ pc = "start" /\ strat \in {"into_iter", "into_iter_safer"}
    /\ a # <<>> /\ b # <<>>
    /\ Allocate
    /\ pc' = IF strat = "into_iter" THEN "ii_loop" ELSE "is_loop"
    /\ UNCHANGED <<args, a, b, dfv, rawv, result, resbuf, ncmp, nmoves, dropped,
                   nrealloc, wlog, ub>>

\* One iteration of the loop, once both fronts can be read.
MergeStep(next) ==
    LET ord == cmp(Head(a), Head(b))
    IN /\ a' = IF takes_a(ord) THEN Tail(a) ELSE a
       /\ b' = IF takes_b(ord) THEN Tail(b) ELSE b
       /\ out' = push_unchecked(out, emits(ord, Head(a), Head(b)))
       /\ dropped' = IF ord = "Equal" THEN Append(dropped, Head(b)) ELSE dropped
       /\ ncmp' = ncmp + 1
       /\ nmoves' = nmoves + 1
       /\ wlog' = wlog \cup {out.len}
       /\ ub' = (ub \/ out.len >= out.cap)
       /\ Goto(next)
       /\ UNCHANGED <<args, dfv, rawv, result, resbuf, nalloc, nrealloc>>

\* get_unchecked(0) and next_unchecked: outside their contract on an empty iterator.
IntoIterLoop ==
    /\ pc = "ii_loop"
    /\ both_nonempty(a, b)
    /\ IF a = <<>> \/ b = <<>>
       THEN /\ ub' = TRUE
            /\ Goto("ii_loop")
            /\ UNCHANGED <<args, a, b, out, dfv, rawv, result, resbuf, ncmp, nmoves,
                           dropped, nalloc, nrealloc, wlog>>
       ELSE MergeStep("ii_loop")

\* if !a.is_empty() { for elem in a {..} } else { for elem in b {..} }
IntoIterExit ==
    /\ pc = "ii_loop"
    /\ ~both_nonempty(a, b)
    /\ pc' = IF a # <<>> THEN "ii_rest_a" ELSE "ii_rest_b"
    /\ UNCHANGED <<args, a, b, out, dfv, rawv, result, resbuf, stats>>

\* One turn of a for loop over the iterator it: push_unchecked(&mut out, elem),
\* or, at its end, the return of out.  The iterators are dropped on the way
\* out, and with them whatever elements they still hold.
RestStep(it, other, setit, here) ==
    IF it = <<>>
    THEN /\ dropped' = dropped \o other
         /\ a' = <<>> /\ b' = <<>>
         /\ UNCHANGED <<args, out, dfv, rawv, ncmp, nmoves, nalloc, nrealloc, wlog, ub>>
         /\ Return(Contents(out), "out")
    ELSE /\ out' = push_unchecked(out, Head(it))
         /\ setit
         /\ nmoves' = nmoves + 1
         /\ wlog' = wlog \cup {out.len}
         /\ ub' = (ub \/ out.len >= out.cap)
         /\ Goto(here)
         /\ UNCHANGED <<args, dfv, rawv, result, resbuf, ncmp, dropped, nalloc, nrealloc>>

IntoIterRestA ==
    /\ pc = "ii_rest_a"
    /\ RestStep(a, b, a' = Tail(a) /\ b' = b, "ii_rest_a")

IntoIterRestB ==
    /\ pc = "ii_rest_b"
    /\ RestStep(b, a, b' = Tail(b) /\ a' = a, "ii_rest_b")

\* &a.as_slice()[0] and a.next().unwrap() panic on an empty iterator; the
\* unwinding drops out, a and b with the elements they hold.
SaferLoop ==
    /\ pc = "is_loop"
    /\ both_nonempty(a, b)
    /\ IF a = <<>> \/ b = <<>>
       THEN /\ pc' = "panicked"
            /\ dropped' = dropped \o Contents(out) \o a \o b
            /\ a' = <<>> /\ b' = <<>> /\ out' = EmptyVec
            /\ UNCHANGED <<args, dfv, rawv, result, resbuf, ncmp, nmoves, nalloc,
                           nrealloc, wlog, ub>>
       ELSE MergeStep("is_loop")

\* if !a.is_empty() { out.extend(a); } else { out.extend(b); }  out
SaferExtend ==
    /\ pc = "is_loop"
    /\ ~both_nonempty(a, b)
    /\ LET rest == IF a # <<>> THEN a ELSE b
           left == IF a # <<>> THEN b ELSE a
       IN /\ out' = extend(out, rest)
          /\ nrealloc' = nrealloc + Grows(out, Len(rest))
          /\ wlog' = wlog \cup Offsets(out, Len(rest))
          /\ nmoves' = nmoves + Len(rest)
          /\ dropped' = dropped \o left
    /\ a' = <<>> /\ b' = <<>>
    /\ UNCHANGED <<args, dfv, rawv, ncmp, nalloc, ub>>
    /\ Return(Contents(out'), "out")

(***************************************************************************)
(* old_datafrog                                                            *)
(***************************************************************************)
\* if a[0] > b[0] { std::mem::swap(&mut a, &mut b); }
needs_swap_M(x, y) == x.k < y.k
needs_swap(x, y) == x.k > y.k

peek_is_M(it, e, ord) == it # <<>> /\ cmp(Head(it), e) = "Less"

\* b.peek().map(|x| x.cmp(&elem)) == Some(ord)
peek_is(it, e, ord) == it # <<>> /\ cmp(Head(it), e) = ord

\* The comparisons one evaluation of peek_is makes.
PeekCost(it) == IF it # <<>> THEN 1 ELSE 0

DfFast ==
    /\ pc = "start" /\ strat = "old_datafrog"
    /\ ReturnOther

\* The swap, the output, and the two drains.
DfAlloc ==
    /\ pc = "start" /\ strat = "old_datafrog"
    /\ a # <<>> /\ b # <<>>
    /\ swapped' = needs_swap(a[1], b[1])
    /\ a' = IF swapped' THEN b ELSE a
    /\ b' = IF swapped' THEN a ELSE b
    /\ ncmp' = ncmp + 1
    /\ Allocate
    /\ pc' = "df_first"
    /\ UNCHANGED <<args, elem, rawv, result, resbuf, nmoves, dropped, nrealloc, wlog, ub>>

\* out.push(a.next().unwrap()); if out.first() == b.peek() { b.next(); }
DfFirst ==
    /\ pc = "df_first"
    /\ out' = push(out, Head(a))
    /\ nrealloc' = nrealloc + Grows(out, 1)
    /\ wlog' = wlog \cup {out.len}
    /\ nmoves' = nmoves + 1
    /\ a' = Tail(a)
    /\ ncmp' = ncmp + PeekCost(b)
    /\ IF b # <<>> /\ Head(b).k = Head(a).k
       THEN b' = Tail(b) /\ dropped' = Append(dropped, Head(b))
       ELSE b' = b /\ dropped' = dropped
    /\ pc' = "df_for"
    /\ UNCHANGED <<args, dfv, rawv, result, resbuf, nalloc, ub>>

\* for elem in a: the next element of a, if there is one
DfNext ==
    /\ pc = "df_for"
    /\ a # <<>>
    /\ elem' = <<Head(a)>>
    /\ a' = Tail(a)
    /\ pc' = "df_while"
    /\ UNCHANGED <<args, b, out, swapped, rawv, result, resbuf, stats>>

\* while b.peek().map(|x| x.cmp(&elem)) == Some(Less) { out.push(b.next().unwrap()); }
DfWhile ==
    /\ pc = "df_while"
    /\ peek_is(b, elem[1], "Less")
    /\ out' = push(out, Head(b))
    /\ nrealloc' = nrealloc + Grows(out, 1)
    /\ wlog' = wlog \cup {out.len}
    /\ nmoves' = nmoves + 1
    /\ b' = Tail(b)
    /\ ncmp' = ncmp + 1
    /\ UNCHANGED <<args, pc, a, dfv, rawv, result, resbuf, dropped, nalloc, ub>>

\* The while ends; if b.peek()... == Some(Equal) { b.next(); }  out.push(elem);
DfEmit ==
    /\ pc = "df_while"
    /\ ~peek_is(b, elem[1], "Less")
    /\ IF peek_is(b, elem[1], "Equal")
       THEN b' = Tail(b) /\ dropped' = Append(dropped, Head(b))
       ELSE b' = b /\ dropped' = dropped
    /\ ncmp' = ncmp + 2 * PeekCost(b)
    /\ out' = push(out, elem[1])
    /\ nrealloc' = nrealloc + Grows(out, 1)
    /\ wlog' = wlog \cup {out.len}
    /\ nmoves' = nmoves + 1
    /\ elem' = <<>>
    /\ pc' = "df_for"
    /\ UNCHANGED <<args, a, swapped, rawv, result, resbuf, nalloc, ub>>

\* a is exhausted: out.extend(b); out
DfExtend ==
    /\ pc = "df_for"
    /\ a = <<>>
    /\ out' = extend(out, b)
    /\ nrealloc' = nrealloc + Grows(out, Len(b))
    /\ wlog' = wlog \cup Offsets(out, Len(b))
    /\ nmoves' = nmoves + Len(b)
    /\ b' = <<>>
    /\ UNCHANGED <<args, a, dfv, rawv, ncmp, dropped, nalloc, ub>>
    /\ Return(Contents(out'), "out")

(***************************************************************************)
(* raw_ptr                                                                 *)
(***************************************************************************)
\* RawIter::is_empty, RawIter::len, RawIter::advance
is_empty(it) == it.start = it.end

len(it) == it.end - it.start

advance(it) == [it EXCEPT !.start = it.start + 1]

\* Vec::from_raw_parts(aptr, 0, acap): the length the husk is given.
husk_len_M(n) == n
husk_len(n) == 0

Mark(f, xs, what) == [x \in DOMAIN f |-> IF x \in xs THEN Append(f[x], what) ELSE f[x]]

Present(f, s) == Cardinality({x \in Range(s) : f[x] = <<>>})

RECURSIVE copy(_, _, _)
\* ptr::copy_nonoverlapping(src, o, count): the elements xs written from offset at
copy(mem, at, xs) ==
    IF xs = <<>> THEN mem ELSE copy(Write(mem, at, Head(xs)), at + 1, Tail(xs))

RpFast ==
    /\ pc = "start" /\ strat = "raw_ptr"
    /\ ReturnOther

\* into_raw_parts, the two RawIter, the output and its write cursor
RpAlloc ==
    /\ pc = "start" /\ strat = "raw_ptr"
    /\ a # <<>> /\ b # <<>>
    /\ ait' = [start |-> 0, end |-> Len(a)]
    /\ bit' = [start |-> 0, end |-> Len(b)]
    /\ Allocate
    /\ o' = 0
    /\ pc' = "rp_loop"
    /\ UNCHANGED <<args, a, b, dfv, fate, freed, result, resbuf, ncmp, nmoves, dropped,
                   nrealloc, wlog, ub>>

\* One iteration of while !ait.is_empty() && !bit.is_empty().  Reading past
\* an input, or writing past the output's capacity, is outside the contract
\* of the raw pointer operations.
RpLoop ==
    /\ pc = "rp_loop"
    /\ ~is_empty(ait) /\ ~is_empty(bit)
    /\ IF ait.start >= Len(a) \/ bit.start >= Len(b)
       THEN /\ ub' = TRUE
            /\ Goto("rp_loop")
            /\ UNCHANGED <<args, a, b, out, dfv, rawv, result, resbuf, ncmp, nmoves,
                           dropped, nalloc, nrealloc, wlog>>
       ELSE LET x == a[ait.start + 1]
                y == b[bit.start + 1]
                ord == cmp(x, y)
            IN /\ out' = [out EXCEPT !.mem = Write(out.mem, o, IF ord = "Greater" THEN y ELSE x)]
               /\ ait' = IF ord = "Greater" THEN ait ELSE advance(ait)
               /\ bit' = IF ord = "Less" THEN bit ELSE advance(bit)
               /\ fate' = IF ord = "Less" THEN Mark(fate, {x}, "relocated")
                          ELSE IF ord = "Greater" THEN Mark(fate, {y}, "relocated")
                          ELSE Mark(Mark(fate, {x}, "relocated"), {y}, "destructed")
               /\ dropped' = IF ord = "Equal" THEN Append(dropped, y) ELSE dropped
               /\ o' = o + 1
               /\ ncmp' = ncmp + 1
               /\ nmoves' = nmoves + 1
               /\ wlog' = wlog \cup {o}
               /\ ub' = (ub \/ o >= out.cap)
               /\ Goto("rp_loop")
               /\ UNCHANGED <<args, a, b, dfv, freed, result, resbuf, nalloc, nrealloc>>

\* The comparison panics.  Of the locals only out has a destructor: its
\* length is still 0, so its allocation is released and nothing else is.
RpPanic ==
    /\ pc = "rp_loop"
    /\ ~is_empty(ait) /\ ~is_empty(bit)
    /\ freed' = [freed EXCEPT !.out = Append(freed.out, o)]
    /\ pc' = "aborted"
    /\ UNCHANGED <<args, a, b, out, dfv, ait, bit, o, fate, result, resbuf, stats>>

\* The rest of one input is copied in bulk, the two husks are dropped, the
\* output's length is set, and out is returned.
RpFinish ==
    /\ pc = "rp_loop"
    /\ ~(~is_empty(ait) /\ ~is_empty(bit))
    /\ LET fromA == ~is_empty(ait)
           it == IF fromA THEN ait ELSE bit
           src == IF fromA THEN a ELSE b
           rest == SubSeq(src, it.start + 1, it.end)
           ha == SubSeq(a, 1, husk_len(Len(a)))
           hb == SubSeq(b, 1, husk_len(Len(b)))
           f1 == Mark(fate, Range(rest), "relocated")
           f2 == Mark(f1, Range(ha), "destructed")
       IN /\ out' = [mem |-> copy(out.mem, o, rest), len |-> o + len(it), cap |-> out.cap]
          /\ o' = o + len(it)
          /\ ait' = ait /\ bit' = bit
          /\ fate' = Mark(f2, Range(hb), "destructed")
          /\ freed' = [freed EXCEPT !.a = Append(freed.a, Present(f1, a)),
                                    !.b = Append(freed.b, Present(f2, b))]
          /\ dropped' = dropped \o ha \o hb
          /\ nmoves' = nmoves + len(it)
          /\ wlog' = wlog \cup {o + d : d \in 0..(len(it) - 1)}
          /\ ub' = (ub \/ o + len(it) > out.cap)
    /\ UNCHANGED <<args, a, b, dfv, ncmp, nalloc, nrealloc>>
    /\ Return(Contents(out'), "out")

(***************************************************************************)
(* Start and specification                                                 *)
(***************************************************************************)
Start(keysets) ==
    /\ strat \in Strategies
    /\ inA \in {Tag(s, "a") : s \in keysets}
    /\ inB \in {Tag(s, "b") : s \in keysets}
    /\ pc = "start"
    /\ a = inA /\ b = inB
    /\ out = EmptyVec
    /\ elem = <<>> /\ swapped = FALSE
    /\ ait = [start |-> 0, end |-> 0] /\ bit = [start |-> 0, end |-> 0] /\ o = 0
    /\ result = <<>> /\ resbuf = "none"
    /\ ncmp = 0 /\ nmoves = 0 /\ dropped = <<>> /\ nalloc = 0 /\ nrealloc = 0
    /\ wlog = {} /\ ub = FALSE
    /\ fate = [x \in Range(inA) \cup Range(inB) |-> <<>>]
    /\ freed = [a |-> <<>>, b |-> <<>>, out |-> <<>>]

\* The arguments meet the precondition: each strictly ascending.
Init == Start({s \in KeySeqs(MaxLen, MaxVal) : Ascending(s)})

\* Any two vectors.
InitAny == Start(KeySeqs(MaxLenAny, MaxValAny))

Next ==
    \/ NaiveAppend
    \/ NaiveSort
    \/ NaiveDedup
    \/ IntoIterFast
    \/ IntoIterAlloc
    \/ IntoIterLoop
    \/ IntoIterExit
    \/ IntoIterRestA
    \/ IntoIterRestB
    \/ SaferLoop
    \/ SaferExtend
    \/ DfFast
    \/ DfAlloc
    \/ DfFirst
    \/ DfNext
    \/ DfWhile
    \/ DfEmit
    \/ DfExtend
    \/ RpFast
    \/ RpAlloc
    \/ RpLoop
    \/ RpPanic
    \/ RpFinish

Spec == Init /\ [][Next]_vars

SpecAny == InitAny /\ [][Next]_vars
(***************************************************************************)
(* The claims                                                              *)
(***************************************************************************)
KeySet(s) == {s[n].k : n \in 1..Len(s)}

Valid == Ascending(Keys(inA)) /\ Ascending(Keys(inB))

Returned == pc = "done"

NonEmptyCall == inA # <<>> /\ inB # <<>>

\* With an empty argument: the other argument, and the allocation it lives in.
Other == IF inA = <<>> THEN inB ELSE inA

OtherBuf == IF inA = <<>> THEN "b" ELSE "a"

\* C1: with strictly ascending arguments, what into_iter, into_iter_safer,
\* old_datafrog and raw_ptr return equals, position by position, what naive
\* returns for the same arguments.
C1_EqualsNaive ==
    (Returned /\ strat \in Linear)
        => \A r \in naive(inA, inB) : Keys(result) = Keys(r)

C1_Witness ==
    /\ Returned /\ strat = "raw_ptr"
    /\ Keys(inA) = <<1, 2, 3>> /\ Keys(inB) = <<2, 3, 4>>
    /\ Keys(result) = <<1, 2, 3, 4>>

\* C2: with strictly ascending arguments, what any of the five strategies
\* returns is strictly ascending.
C2_StrictlyAscending == Returned => Ascending(Keys(result))

C2_Witness ==
    /\ Returned /\ strat = "old_datafrog" /\ swapped
    /\ KeySet(inA) \cap KeySet(inB) # {}
    /\ Len(result) >= 3

\* C3: with strictly ascending arguments, the returned length is
\* len(A) + len(B) minus the number of values the two arguments share.
C3_UnionSize ==
    Returned =>
        Len(result) = Len(inA) + Len(inB) - Cardinality(KeySet(inA) \cap KeySet(inB))

C3_Witness ==
    /\ Returned /\ strat = "naive"
    /\ Len(inA) = 3 /\ Len(inB) = 2
    /\ Cardinality(KeySet(inA) \cap KeySet(inB)) = 2
    /\ Len(result) = 3

\* C4 as stated: in every strategy, when an argument is empty the other one is
\* returned unchanged in its own storage, and nothing was allocated,
\* compared, moved or dropped.
C4_Original ==
    (Returned /\ ~NonEmptyCall) =>
        /\ result = Other
        /\ Other # <<>> => resbuf = OtherBuf
        /\ nalloc = 0 /\ ncmp = 0 /\ nmoves = 0 /\ dropped = <<>>

\* C4 as amended: in every strategy, when an argument is empty the result is
\* the other argument, element for element, and nothing is dropped.  The four
\* linear strategies return the other argument's own storage and allocate,
\* compare and move nothing.  naive returns its first argument's storage,
\* grown if need be, never its second's: an empty A receives B's elements by
\* move, and two or more elements are compared by the sort and the dedup.
C4_EmptyIdentity ==
    (Returned /\ ~NonEmptyCall) =>
        /\ result = Other
        /\ dropped = <<>>
        /\ strat \in Linear =>
              /\ Other # <<>> => resbuf = OtherBuf
              /\ nalloc = 0 /\ ncmp = 0 /\ nmoves = 0
        /\ strat = "naive" =>
              /\ resbuf \in {"a", "grown"}
              /\ nmoves = Len(inB)
              /\ Len(result) >= 2 => ncmp > 0

C4_Witness ==
    /\ Returned /\ strat = "raw_ptr"
    /\ inA = <<>> /\ Len(inB) = 2
    /\ result = inB /\ resbuf = "b"

\* C5: in the four linear strategies, with strictly ascending arguments, of
\* two equal elements the one from the first argument A is in the result and
\* the one from the second argument B is the one dropped.
C5_FirstArgumentWins ==
    (Returned /\ strat \in Linear) =>
        \A x \in Range(inA), y \in Range(inB) :
            x.k = y.k =>
                /\ Count(result, x) = 1 /\ Count(dropped, x) = 0
                /\ Count(result, y) = 0 /\ Count(dropped, y) = 1

\* The slots of raw_ptr's two input allocations after a return.
Relocated == {x \in Ids : fate[x] = <<"relocated">>}
Destructed == {x \in Ids : fate[x] = <<"destructed">>}

SlotsSettled ==
    /\ \A x \in Ids : Len(fate[x]) = 1
    /\ Cardinality(Relocated) = Len(result)
    /\ Cardinality(Relocated) + Cardinality(Destructed) = Len(inA) + Len(inB)
    /\ freed.a = <<0>> /\ freed.b = <<0>>

\* C6 as stated: whatever the arguments, when raw_ptr returns every slot of
\* both inputs has made exactly one transition, to relocated or to destructed,
\* as many slots are relocated as the result is long, and each input
\* allocation was released once, with no slot still present.
C6_Original == (Returned /\ strat = "raw_ptr") => SlotsSettled

\* C6 as amended: the above holds when both arguments are non-empty.  When an
\* argument is empty the other one is returned as it is: none of its slots
\* makes a transition and its allocation is not released, it is the result.
C6_SlotLifecycle ==
    (Returned /\ strat = "raw_ptr") =>
        /\ ~ub
        /\ NonEmptyCall => SlotsSettled /\ freed.out = <<>>
        /\ ~NonEmptyCall =>
              /\ \A x \in Ids : fate[x] = <<>>
              /\ freed = [a |-> <<>>, b |-> <<>>, out |-> <<>>]
              /\ result = Other
              /\ Other # <<>> => resbuf = OtherBuf

C6_Witness ==
    /\ Returned /\ strat = "raw_ptr"
    /\ ~Valid
    /\ Destructed # {} /\ Cardinality(Relocated) >= 2
    /\ freed.a = <<0>> /\ freed.b = <<0>>

\* C7: in the four linear strategies called with two non-empty arguments, the
\* output is allocated once, with capacity len(A) + len(B), before anything
\* is moved; every write lands at an offset below that capacity, the output
\* never grows, and its length never exceeds the capacity.
C7_CapacitySuffices ==
    (strat \in Linear /\ NonEmptyCall) =>
        /\ nalloc = 0 => nmoves = 0 /\ wlog = {}
        /\ pc # "start" =>
              /\ nalloc = 1 /\ nrealloc = 0 /\ ~ub
              /\ out.cap = Len(inA) + Len(inB)
              /\ \A w \in wlog : w < out.cap
              /\ out.len <= out.cap
              /\ Len(result) <= out.cap

C7_Witness ==
    /\ Returned /\ strat = "old_datafrog"
    /\ Len(inA) = 2 /\ Len(inB) = 2
    /\ out.len = out.cap
    /\ wlog = 0..3

\* C8: whatever the two arguments, naive, into_iter, into_iter_safer and
\* old_datafrog stay within the contract of their unchecked operations and do
\* not panic, write at most len(A) + len(B) elements, and on return every
\* input element is either in the result once or dropped once.
C8_SafeOnAnyInput ==
    strat \in {"naive", "into_iter", "into_iter_safer", "old_datafrog"} =>
        /\ ~ub /\ pc \notin {"ub", "panicked"}
        /\ \A w \in wlog : w < Len(inA) + Len(inB)
        /\ out.len <= Len(inA) + Len(inB)
        /\ Len(a) <= Len(inA) + Len(inB)
        /\ \A x \in Ids : Count(dropped, x) <= 1
        /\ Returned => \A x \in Ids : Count(result, x) + Count(dropped, x) = 1

C8_Witness ==
    /\ Returned /\ strat = "into_iter"
    /\ Keys(inA) = <<2, 1>> /\ Keys(inB) = <<1, 1>>
    /\ ~Ascending(Keys(result))

\* C9: when a comparison of raw_ptr's loop panics after some elements were
\* relocated or destructed, nothing is released twice,
\* and every element, reached or not, and both input allocations are released
\* exactly once.
C9_AbortReclaims ==
    (pc = "aborted" /\ o >= 1) =>
        /\ \A x \in Ids : Len(fate[x]) <= 1 /\ Count(dropped, x) = 1
        /\ Len(freed.a) = 1 /\ Len(freed.b) = 1 /\ Len(freed.out) = 1

\* C10: in old_datafrog with strictly ascending non-empty arguments, the first
\* element pushed is the smallest of both; from then on every pending element
\* of B is greater than every element emitted; and once A is exhausted B's
\* remainder is appended as it is, without a comparison.
DfPending ==
    (strat = "old_datafrog" /\ pc \in {"df_for", "df_while"}) =>
        /\ out.mem[1].k = MinKey(Ids)
        /\ \A y \in Range(b), x \in Range(Contents(out)) : y.k > x.k
        /\ a = <<>> => KeySet(b) \cap KeySet(Contents(out)) = {}

DfAppendsRest ==
    (strat = "old_datafrog" /\ pc = "df_for" /\ a = <<>>) =>
        /\ ncmp' = ncmp
        /\ dropped' = dropped
        /\ result' = Contents(out) \o b

C10_DrainInvariant == []DfPending /\ [][DfAppendsRest]_vars

C10_Witness ==
    /\ strat = "old_datafrog" /\ pc = "df_for" /\ swapped
    /\ a = <<>> /\ Len(b) >= 1 /\ Len(dropped) >= 1
====
